---- MODULE Spec2Model ----
(***************************************************************************)
(* Photoelectric-effect lab: the Experiment datalog (src/Experiment.py),   *)
(* the Light_Source entries it holds (src/LightSource.py) and the menu     *)
(* loop that drives them (src/PEF_Lab.py).                                 *)
(*                                                                         *)
(* Voltages and currents are integers in tenths of a volt / microampere.  *)
(* Python's 0-based positions are kept in the inputs and in indx; the      *)
(* datalog and the dataframes are 1-based TLA+ sequences, so position p    *)
(* of the code is element p + 1 here.                                      *)
(*                                                                         *)
(* datalog  Experiment.__datalog, a list of Light_Source objects           *)
(* pc       where main is: in the menu loop, returned, or left by an       *)
(*          uncaught exception                                             *)
(* option   the option process_option was last called with                 *)
(* indx     what the user typed at the last 'Select the entry' prompt      *)
(* out      the last outcome line the action printed                       *)
(* answered the answer to the last 'Would you like to proceed (y/n)?', ""  *)
(*          when the last action did not ask                               *)
(* end_exp  main's variable of that name: what process_option returned     *)
(*          last, "False" before the first call                            *)
(* csv      the data rows of the csv file in the working directory         *)
(* raised   the exception the last action raised inside, caught or not     *)
(* energy_df, plank, work_func   the Experiment attributes of those names  *)
(* stdout   whether the interpreter's original output stream is open       *)
(* figures  whether pyplot holds a figure that was opened and not closed   *)
(* backend  the pyplot backend of the run: one that opens windows, or Agg  *)
(* report   the estimates and the percent error of the last report that   *)
(*          was printed, to the screen or into report.txt                  *)
(* files    the entries' csv files in the experiment's directory: the rows *)
(*          each holds, by file name                                       *)
(***************************************************************************)
EXTENDS Integers, Sequences, FiniteSets

VARIABLES datalog, pc, option, indx, out, csv, raised, end_exp, answered,
          energy_df, plank, work_func, stdout, figures, files, report, backend

\* what the estimate, report and save options write
results == <<energy_df, plank, work_func, stdout, files, report>>

vars == <<datalog, pc, option, indx, out, csv, raised, end_exp, answered, results,
          figures, backend>>

(***************************************************************************)
(* Bounds                                                                  *)
(***************************************************************************)
\* largest datalog the add option is allowed to build
MaxLog == 2
\* largest number of data rows in the csv file
MaxRows == 2

(***************************************************************************)
(* Inputs                                                                  *)
(***************************************************************************)
\* answers to 'Is this an LED or a Laser?' that pass the validation loop
TypeInputs == {"led", "Laser"}
\* answers to 'Enter the ... wavelength in nm' that pass the validation loop
Wavelengths == {450, 650}
\* answers to the y/n prompts that pass the validation loop, after lower()
YesNo == {"y", "n"}
\* answers to 'Enter csv file path': the file in the working directory, and
\* a path that names no file
Paths == {"data.csv", "nofile.csv"}
\* rows the csv file can hold: columns V_r, I_ub, I_b and I_φ as written in
\* the file.  The first three are the sweep (0.0, -2.0, 0.5), (0.3, -0.1, 0.5),
\* (0.6, 1.0, 0.5) with I_φ = I_ub + I_b; the fourth carries an I_φ that is
\* not that sum.
Samples ==
    { [V_r |-> 0, I_ub |-> -20, I_b |-> 5, I_phi |-> -15],
      [V_r |-> 3, I_ub |-> -1,  I_b |-> 5, I_phi |-> 4],
      [V_r |-> 6, I_ub |-> 10,  I_b |-> 5, I_phi |-> 15],
      [V_r |-> 3, I_ub |-> -20, I_b |-> 5, I_phi |-> 0] }

RECURSIVE SeqsOfLen(_, _)
SeqsOfLen(S, n) ==
    IF n = 0 THEN { <<>> }
    ELSE { Append(s, x) : s \in SeqsOfLen(S, n - 1), x \in S }

\* contents the csv file can have: the header line and 0..MaxRows data rows
\* in any order
CsvContents == UNION { SeqsOfLen(Samples, n) : n \in 0..MaxRows }

\* what the user can type at 'Select the entry to ...': an integer, or text
\* that int() rejects
IndexInputs ==
    { [isint |-> TRUE, val |-> i] : i \in -1..(MaxLog + 1) } \cup
    { [isint |-> FALSE, val |-> 0] }
\* value of indx when the action asked for no index
NoIndex == [isint |-> FALSE, val |-> -1]

(***************************************************************************)
(* Light_Source                                                            *)
(***************************************************************************)
\* the value None of __source_df
NoDf == [present |-> FALSE, rows |-> <<>>]

\* Light_Source.__init__
Light_Source(wavelength_nm, s_type) ==
    [wavelength |-> wavelength_nm, source_type |-> s_type,
     source_df |-> NoDf, stop_voltage |-> 0]

\* the pyplot backends: one that opens a window for plt.show(), and Agg,
\* which opens none
Backends == {"window", "Agg"}

\* whether pyplot holds a figure after plt.show(): with windows, show()
\* returns when they are closed and every figure is gone with its window;
\* without, show() returns at once and the figure drawn into stays
show(bk) == bk # "window"

\* Light_Source.plot_data: draws into the current figure, which pyplot
\* makes if there is none, and shows it
plot_data(bk) == show(bk)

\* Python's seq[i] for a 0-based i that may be negative; the caller checks
\* InRange first
PyIndex(seq, i) == IF i < 0 THEN seq[Len(seq) + i + 1] ELSE seq[i + 1]
InRange(seq, i) == -Len(seq) <= i /\ i < Len(seq)

\* the search loop of __calc_stop_volage: 0-based position of the first row
\* at or after position i whose photocurrent is >= 0, -1 when there is none
RECURSIVE FirstCrossing(_, _)
FirstCrossing(rows, i) ==
    IF i >= Len(rows) THEN -1
    ELSE IF rows[i + 1].I_phi >= 0 THEN i
    ELSE FirstCrossing(rows, i + 1)

\* __calc_stop_volage returning early on a dataframe without rows
calc_stop_volage_skips_empty(entry) ==
    LET rows == entry.source_df.rows
        index == FirstCrossing(rows, 0)
    IN  IF rows = <<>> THEN [exc |-> "None", entry |-> entry]
        ELSE [exc |-> "None",
              entry |-> [entry EXCEPT !.stop_voltage = PyIndex(rows, index).V_r]]

\* Light_Source.__calc_stop_volage
calc_stop_volage(entry) ==
    LET rows == entry.source_df.rows
        index == FirstCrossing(rows, 0)
    IN  IF InRange(rows, index)
        THEN [exc |-> "None",
              entry |-> [entry EXCEPT !.stop_voltage = PyIndex(rows, index).V_r]]
        ELSE [exc |-> "IndexError", entry |-> entry]

\* pd.read_csv on a path
read_csv(filename, file) ==
    IF filename = "data.csv" THEN [exc |-> "None", rows |-> file]
    ELSE [exc |-> "FileNotFoundError", rows |-> <<>>]

\* Light_Source.load_data_from_csv
load_data_from_csv(entry, filename, file) ==
    LET df == read_csv(filename, file)
    IN  IF df.exc # "None"
        THEN [exc |-> df.exc, entry |-> entry]
        ELSE calc_stop_volage(
                [entry EXCEPT !.source_df = [present |-> TRUE, rows |-> df.rows]])

\* Light_Source.collect_data: the measurement V_p is read at line 221 but
\* the statement that assigns it is commented out, so the first pass of
\* the sampling loop raises NameError before any dataframe is built
collect_data(entry) == [exc |-> "NameError", entry |-> entry]

(***************************************************************************)
(* Experiment                                                              *)
(***************************************************************************)
\* str.upper() and str.capitalize() on the answers the loop accepts
Upper(s) == IF s = "led" THEN "LED" ELSE IF s = "Laser" THEN "LASER" ELSE s
Capitalize(s) == IF s = "LASER" THEN "Laser" ELSE s
\* lines 311-315 of __add_log_entry
SourceType(answer) ==
    LET source_type == Upper(answer)
    IN  IF source_type # "LED" THEN Capitalize(source_type) ELSE source_type

\* list.pop(p) for a 0-based p with 0 <= p < len
Pop(log, p) == [j \in 1..(Len(log) - 1) |-> IF j <= p THEN log[j] ELSE log[j + 1]]

\* the range check on a typed index (lines 361-363, 388-390, 452-454):
\* int() accepts it and it is a position of the datalog
ValidIndex(answer) ==
    answer.isint /\ answer.val >= 0 /\ answer.val < Len(datalog)

\* the number 0 that __init__ gives the two estimates, as a fraction
Zero == [num |-> 0, den |-> 1]
\* no report printed yet
NoReport == [printed |-> FALSE, work_func |-> Zero, plank |-> Zero, error |-> 0]

Init ==
    /\ datalog = <<>>
    /\ pc = "menu"
    /\ option = -1
    /\ indx = NoIndex
    /\ out = "Beginning experiment"
    /\ raised = "None"
    /\ end_exp = "False"
    /\ answered = ""
    /\ energy_df = <<>>
    /\ plank = Zero
    /\ work_func = Zero
    /\ stdout = "open"
    /\ figures = FALSE
    /\ backend \in Backends
    /\ files = <<>>
    /\ report = NoReport
    /\ csv \in CsvContents

\* __add_log_entry carrying on after a failed load instead of returning
add_log_entry_no_return(answer, wavelength_nm, from_file, filename) ==
    /\ pc = "menu"
    /\ Len(datalog) < MaxLog
    /\ option' = 1
    /\ indx' = NoIndex
    /\ LET entry == Light_Source(wavelength_nm, SourceType(answer))
           r == IF from_file = "y" THEN load_data_from_csv(entry, filename, csv)
                ELSE collect_data(entry)
       IN  /\ raised' = r.exc
           /\ IF from_file # "y" /\ r.exc # "None"
               THEN /\ out' = "Traceback (most recent call last):"
                    /\ pc' = "crashed"
                    /\ UNCHANGED datalog
               ELSE /\ out' = "[+]Added entry:"
                    /\ datalog' = datalog \o <<r.entry>>
                    /\ UNCHANGED pc
    /\ UNCHANGED <<csv, results>>
    /\ end_exp' = IF pc' = "crashed" THEN end_exp ELSE "None"
    /\ answered' = ""
    /\ figures' = IF out' = "[+]Added entry:" THEN plot_data(backend) ELSE figures
    /\ UNCHANGED backend

\* __add_log_entry putting the new entry first in the list
add_log_entry_prepend(answer, wavelength_nm, from_file, filename) ==
    /\ pc = "menu"
    /\ Len(datalog) < MaxLog
    /\ option' = 1
    /\ indx' = NoIndex
    /\ LET entry == Light_Source(wavelength_nm, SourceType(answer))
           r == IF from_file = "y" THEN load_data_from_csv(entry, filename, csv)
                ELSE collect_data(entry)
       IN  /\ raised' = r.exc
           /\ IF from_file = "y" /\ r.exc # "None"
               THEN /\ out' = "ERROR: read_csv: unable to load file"
                    /\ UNCHANGED <<datalog, pc>>
               ELSE IF r.exc # "None"
               THEN \* collect_data is called outside any try: the exception
                    \* leaves process_option and main
                    /\ out' = "Traceback (most recent call last):"
                    /\ pc' = "crashed"
                    /\ UNCHANGED datalog
               ELSE /\ out' = "[+]Added entry:"
                    /\ datalog' = <<r.entry>> \o datalog
                    /\ UNCHANGED pc
    /\ UNCHANGED <<csv, results>>
    /\ end_exp' = IF pc' = "crashed" THEN end_exp ELSE "None"
    /\ answered' = ""
    /\ figures' = IF out' = "[+]Added entry:" THEN plot_data(backend) ELSE figures
    /\ UNCHANGED backend

\* Experiment.__add_log_entry, option 1
add_log_entry(answer, wavelength_nm, from_file, filename) ==
    /\ pc = "menu"
    /\ Len(datalog) < MaxLog
    /\ option' = 1
    /\ indx' = NoIndex
    /\ LET entry == Light_Source(wavelength_nm, SourceType(answer))
           r == IF from_file = "y" THEN load_data_from_csv(entry, filename, csv)
                ELSE collect_data(entry)
       IN  /\ raised' = r.exc
           /\ IF from_file = "y" /\ r.exc # "None"
               THEN /\ out' = "ERROR: read_csv: unable to load file"
                    /\ UNCHANGED <<datalog, pc>>
               ELSE IF r.exc # "None"
               THEN \* collect_data is called outside any try: the exception
                    \* leaves process_option and main
                    /\ out' = "Traceback (most recent call last):"
                    /\ pc' = "crashed"
                    /\ UNCHANGED datalog
               ELSE /\ out' = "[+]Added entry:"
                    /\ datalog' = datalog \o <<r.entry>>
                    /\ UNCHANGED pc
    /\ UNCHANGED <<csv, results>>
    /\ end_exp' = IF pc' = "crashed" THEN end_exp ELSE "None"
    /\ answered' = ""
    /\ figures' = IF out' = "[+]Added entry:" THEN plot_data(backend) ELSE figures
    /\ UNCHANGED backend

\* __remove_log_entry popping the end of the list whatever was selected
remove_log_entry_pop_last(answer) ==
    /\ pc = "menu"
    /\ option' = 2
    /\ raised' = IF Len(datalog) > 0 /\ ~answer.isint THEN "ValueError" ELSE "None"
    /\ IF Len(datalog) > 0
       THEN /\ indx' = answer
            /\ IF ValidIndex(answer)
               THEN /\ datalog' = Pop(datalog, Len(datalog) - 1)
                    /\ out' = "[+]Removed entry:"
               ELSE /\ out' = "ERROR: invalid entry: no entries were removed"
                    /\ UNCHANGED datalog
       ELSE /\ indx' = NoIndex
            /\ out' = "[+]The datalog is already empty"
            /\ UNCHANGED datalog
    /\ UNCHANGED <<pc, csv, results>>
    /\ end_exp' = IF pc' = "crashed" THEN end_exp ELSE "None"
    /\ answered' = ""
    /\ UNCHANGED <<figures, backend>>

\* __remove_log_entry without the lower bound of the range check: list.pop
\* counts a negative position from the end
remove_log_entry_no_lower_bound(answer) ==
    /\ pc = "menu"
    /\ option' = 2
    /\ raised' = IF Len(datalog) > 0 /\ ~answer.isint THEN "ValueError" ELSE "None"
    /\ IF Len(datalog) > 0
       THEN /\ indx' = answer
            /\ IF answer.isint /\ answer.val < Len(datalog) /\ InRange(datalog, answer.val)
               THEN /\ datalog' = Pop(datalog, IF answer.val < 0
                                             THEN Len(datalog) + answer.val
                                             ELSE answer.val)
                    /\ out' = "[+]Removed entry:"
               ELSE /\ out' = "ERROR: invalid entry: no entries were removed"
                    /\ UNCHANGED datalog
       ELSE /\ indx' = NoIndex
            /\ out' = "[+]The datalog is already empty"
            /\ UNCHANGED datalog
    /\ UNCHANGED <<pc, csv, results>>
    /\ end_exp' = IF pc' = "crashed" THEN end_exp ELSE "None"
    /\ answered' = ""
    /\ UNCHANGED <<figures, backend>>

\* Experiment.__remove_log_entry, option 2.  int() raising on the answer
\* is caught by the bare except, which prints the same error as the else
\* branch of the range check.
remove_log_entry(answer) ==
    /\ pc = "menu"
    /\ option' = 2
    /\ raised' = IF Len(datalog) > 0 /\ ~answer.isint THEN "ValueError" ELSE "None"
    /\ IF Len(datalog) > 0
       THEN /\ indx' = answer
            /\ IF ValidIndex(answer)
               THEN /\ datalog' = Pop(datalog, answer.val)
                    /\ out' = "[+]Removed entry:"
               ELSE /\ out' = "ERROR: invalid entry: no entries were removed"
                    /\ UNCHANGED datalog
       ELSE /\ indx' = NoIndex
            /\ out' = "[+]The datalog is already empty"
            /\ UNCHANGED datalog
    /\ UNCHANGED <<pc, csv, results>>
    /\ end_exp' = IF pc' = "crashed" THEN end_exp ELSE "None"
    /\ answered' = ""
    /\ UNCHANGED <<figures, backend>>

\* __update_log_entry storing the new entry where the old one stood
update_log_entry_in_place(answer, from_file, filename) ==
    /\ pc = "menu"
    /\ option' = 3
    /\ IF Len(datalog) > 0
       THEN /\ indx' = answer
            /\ IF ValidIndex(answer)
               THEN LET entry == datalog[answer.val + 1]
                        new_entry == Light_Source(entry.wavelength, entry.source_type)
                        r == IF from_file = "y"
                             THEN load_data_from_csv(new_entry, filename, csv)
                             ELSE collect_data(new_entry)
                    IN  /\ raised' = r.exc
                        /\ IF r.exc # "None"
                            THEN /\ out' = IF from_file = "y"
                                           THEN "ERROR: read_csv: unable to load file"
                                           ELSE "ERROR: invalid entry: no entries were updated"
                                 /\ datalog' = Pop(datalog, answer.val)
                            ELSE /\ out' = "[+]Updated entry:"
                                 /\ datalog' = [datalog EXCEPT ![answer.val + 1] = r.entry]
               ELSE /\ raised' = IF answer.isint THEN "None" ELSE "ValueError"
                    /\ out' = "ERROR: invalid entry: no entries were updated"
                    /\ UNCHANGED datalog
       ELSE /\ indx' = NoIndex
            /\ raised' = "None"
            /\ out' = "[+]The datalog is currently empty"
            /\ UNCHANGED datalog
    /\ UNCHANGED <<pc, csv, results>>
    /\ end_exp' = IF pc' = "crashed" THEN end_exp ELSE "None"
    /\ answered' = ""
    /\ figures' = IF out' = "[+]Updated entry:" THEN plot_data(backend) ELSE figures
    /\ UNCHANGED backend

\* Experiment.__update_log_entry, option 3.  The selected entry is popped
\* (line 392) before the new data is loaded or collected; a failed load
\* returns (line 408) and a failed collection is caught by the outer bare
\* except (line 420), in both cases after the pop.
update_log_entry(answer, from_file, filename) ==
    /\ pc = "menu"
    /\ option' = 3
    /\ IF Len(datalog) > 0
       THEN /\ indx' = answer
            /\ IF ValidIndex(answer)
               THEN LET entry == datalog[answer.val + 1]
                        popped == Pop(datalog, answer.val)
                        new_entry == Light_Source(entry.wavelength, entry.source_type)
                        r == IF from_file = "y"
                             THEN load_data_from_csv(new_entry, filename, csv)
                             ELSE collect_data(new_entry)
                    IN  /\ raised' = r.exc
                        /\ IF r.exc # "None"
                            THEN /\ out' = IF from_file = "y"
                                           THEN "ERROR: read_csv: unable to load file"
                                           ELSE "ERROR: invalid entry: no entries were updated"
                                 /\ datalog' = popped
                            ELSE /\ out' = "[+]Updated entry:"
                                 /\ datalog' = popped \o <<r.entry>>
               ELSE /\ raised' = IF answer.isint THEN "None" ELSE "ValueError"
                    /\ out' = "ERROR: invalid entry: no entries were updated"
                    /\ UNCHANGED datalog
       ELSE /\ indx' = NoIndex
            /\ raised' = "None"
            /\ out' = "[+]The datalog is currently empty"
            /\ UNCHANGED datalog
    /\ UNCHANGED <<pc, csv, results>>
    /\ end_exp' = IF pc' = "crashed" THEN end_exp ELSE "None"
    /\ answered' = ""
    /\ figures' = IF out' = "[+]Updated entry:" THEN plot_data(backend) ELSE figures
    /\ UNCHANGED backend

\* Experiment.__display_log, option 4
display_log ==
    /\ pc = "menu"
    /\ option' = 4
    /\ raised' = "None"
    /\ indx' = NoIndex
    /\ out' = IF Len(datalog) > 0 THEN "--------------- Datalog for"
              ELSE "[+]The datalog is currently empty"
    /\ UNCHANGED <<datalog, pc, csv, results>>
    /\ end_exp' = IF pc' = "crashed" THEN end_exp ELSE "None"
    /\ answered' = ""
    /\ UNCHANGED <<figures, backend>>

\* Experiment.__view_log_entry, option 5
view_log_entry(answer) ==
    /\ pc = "menu"
    /\ option' = 5
    /\ raised' = IF Len(datalog) > 0 /\ ~answer.isint THEN "ValueError" ELSE "None"
    /\ IF Len(datalog) > 0
       THEN /\ indx' = answer
            /\ out' = IF ValidIndex(answer)
                      THEN "V_r I_ub I_b I_phi"
                      ELSE "ERROR: invalid entry: unable to view entry"
       ELSE /\ indx' = NoIndex
            /\ out' = "[+]The datalog is currently empty"
    /\ UNCHANGED <<datalog, pc, csv, results>>
    /\ end_exp' = IF pc' = "crashed" THEN end_exp ELSE "None"
    /\ answered' = ""
    /\ figures' = IF out' = "V_r I_ub I_b I_phi" THEN plot_data(backend) ELSE figures
    /\ UNCHANGED backend

\* __clear_log dropping one entry instead of all
clear_log_pop(confirmation) ==
    /\ pc = "menu"
    /\ option' = 9
    /\ raised' = "None"
    /\ indx' = NoIndex
    /\ IF Len(datalog) > 0
       THEN IF confirmation = "y"
            THEN /\ datalog' = Pop(datalog, Len(datalog) - 1)
                 /\ out' = "[+]The datalog has been cleared"
            ELSE /\ out' = "Would you like to proceed (y/n)?: "
                 /\ UNCHANGED datalog
       ELSE /\ out' = "[+]The datalog is already empty"
            /\ UNCHANGED datalog
    /\ UNCHANGED <<pc, csv, results>>
    /\ end_exp' = IF pc' = "crashed" THEN end_exp ELSE "None"
    /\ answered' = IF Len(datalog) > 0 THEN confirmation ELSE ""
    /\ UNCHANGED <<figures, backend>>

\* Experiment.__clear_log, option 9
clear_log(confirmation) ==
    /\ pc = "menu"
    /\ option' = 9
    /\ raised' = "None"
    /\ indx' = NoIndex
    /\ IF Len(datalog) > 0
       THEN IF confirmation = "y"
            THEN /\ datalog' = <<>>
                 /\ out' = "[+]The datalog has been cleared"
            ELSE /\ out' = "Would you like to proceed (y/n)?: "
                 /\ UNCHANGED datalog
       ELSE /\ out' = "[+]The datalog is already empty"
            /\ UNCHANGED datalog
    /\ UNCHANGED <<pc, csv, results>>
    /\ end_exp' = IF pc' = "crashed" THEN end_exp ELSE "None"
    /\ answered' = IF Len(datalog) > 0 THEN confirmation ELSE ""
    /\ UNCHANGED <<figures, backend>>

\* Experiment.__quit, option 0, and the loop test of main
quit(confirmation) ==
    /\ pc = "menu"
    /\ option' = 0
    /\ raised' = "None"
    /\ indx' = NoIndex
    /\ out' = "Warning - Unsaved data will be lost."
    /\ pc' = IF confirmation = "y" THEN "done" ELSE "menu"
    /\ UNCHANGED <<datalog, csv, results>>
    /\ end_exp' = IF confirmation = "y" THEN "True" ELSE "False"
    /\ answered' = confirmation
    /\ UNCHANGED <<figures, backend>>

(***************************************************************************)
(* Estimates and reports                                                   *)
(*                                                                         *)
(* The energy table holds integers: λ in picometres (1e-12 m), ν in units  *)
(* of c / (n_air * 5.85e-6 m), V_s in tenths of a volt and E in units of   *)
(* |e| * 0.1 V.  Slope, intercept and the two estimates are exact          *)
(* fractions num / den in lowest terms with den > 0.                       *)
(***************************************************************************)
\* Experiment.__ELECTRON_CHARGE, in units of 1.602176634e-19 C
ELECTRON_CHARGE == -1

Abs(x) == IF x < 0 THEN -x ELSE x

RECURSIVE Gcd(_, _)
Gcd(a, b) == IF b = 0 THEN a ELSE Gcd(b, a % b)

\* the quotient n / d, d # 0
Frac(n, d) ==
    LET g == Gcd(Abs(n), Abs(d))
        sg == IF d < 0 THEN -1 ELSE 1
    IN  [num |-> sg * (n \div g), den |-> sg * (d \div g)]

\* sort_values(by=['λ']) on a table of at most a few rows: rows of equal λ
\* keep the order they had
RECURSIVE InsertByLam(_, _)
InsertByLam(sorted, row) ==
    IF sorted = <<>> THEN <<row>>
    ELSE IF Head(sorted).lam <= row.lam
         THEN <<Head(sorted)>> \o InsertByLam(Tail(sorted), row)
         ELSE <<row>> \o sorted
RECURSIVE SortByLam(_)
SortByLam(rows) ==
    IF rows = <<>> THEN <<>>
    ELSE InsertByLam(SortByLam(SubSeq(rows, 1, Len(rows) - 1)), rows[Len(rows)])

\* line 136: ν = c / (n_air * λ); exact for the wavelengths of Wavelengths
Frequency(lam) == (5850 * 1000) \div lam

\* lines 131-138 of __create_energy_df: one row per entry of the log
EnergyRow(entry) ==
    LET lam == entry.wavelength * 1000
    IN  [lam |-> lam, nu |-> Frequency(lam), V_s |-> entry.stop_voltage,
         E |-> Abs(ELECTRON_CHARGE) * entry.stop_voltage]

\* __create_energy_df leaving the rows in the order of the datalog
create_energy_df_unsorted(log) == [k \in DOMAIN log |-> EnergyRow(log[k])]

\* Experiment.__create_energy_df: the value it gives __energy_df
create_energy_df(log) == SortByLam([k \in DOMAIN log |-> EnergyRow(log[k])])

RECURSIVE SumOver(_, _, _)
\* sum of f[k] * g[k] over the first n positions
SumOver(f, g, n) == IF n = 0 THEN 0 ELSE f[n] * g[n] + SumOver(f, g, n - 1)

\* the least-squares line with the intercept taken at the first point
\* instead of the mean point
linear_regression_first_point(X, Y) ==
    LET n == Len(X)
        one == [k \in 1..n |-> 1]
        Sx == SumOver(X, one, n)
        Sy == SumOver(Y, one, n)
        den == n * SumOver(X, X, n) - Sx * Sx
        nums == n * SumOver(X, Y, n) - Sx * Sy
    IN  IF den = 0
        THEN [intercept |-> Frac(Y[1], 1), slope |-> Frac(0, 1)]
        ELSE [intercept |-> Frac(Y[1] * den - nums * X[1], den),
              slope |-> Frac(nums, den)]

\* LinearRegression().fit(frequency, energy), lines 188-190: ordinary least
\* squares on centred data, solved by lstsq, whose minimum-norm solution
\* is slope 0 when every frequency is the same
linear_regression(X, Y) ==
    LET n == Len(X)
        one == [k \in 1..n |-> 1]
        Sx == SumOver(X, one, n)
        Sy == SumOver(Y, one, n)
        Sxx == SumOver(X, X, n)
        Sxy == SumOver(X, Y, n)
        den == n * Sxx - Sx * Sx
    IN  IF den = 0
        THEN [intercept |-> Frac(Sy, n), slope |-> Frac(0, 1)]
        ELSE [intercept |-> Frac(Sy * Sxx - Sx * Sxy, den),
              slope |-> Frac(n * Sxy - Sx * Sy, den)]

\* the fit of lines 184-190 on an energy table
FitOf(edf) ==
    linear_regression([k \in DOMAIN edf |-> edf[k].nu], [k \in DOMAIN edf |-> edf[k].E])

\* __plot_energy_data dividing by the magnitude of the charge
plot_energy_data_abs_charge(edf) ==
    LET weights == FitOf(edf)
    IN  [work_func |-> Frac(weights.intercept.num,
                            weights.intercept.den * Abs(ELECTRON_CHARGE)),
         plank |-> weights.slope]

\* Experiment.__plot_energy_data, lines 184-194: the two estimates it stores
plot_energy_data(edf) ==
    LET weights == FitOf(edf)
    IN  [work_func |-> Frac(weights.intercept.num,
                            weights.intercept.den * ELECTRON_CHARGE),
         plank |-> weights.slope]

\* Experiment.__print_report: the exception it ends with and the state it
\* leaves the original output stream in.  io names the step the file system
\* refuses: "open" the open of report.txt, "write" a print into it.  When
\* open raises, sys.stdout is still the original stream, and the except
\* branch (lines 254-257) closes it.
print_report(save, io) ==
    IF save /\ io = "open" THEN [exc |-> "Exception", stdout |-> "closed"]
    ELSE IF save /\ io = "write" THEN [exc |-> "Exception", stdout |-> "open"]
    ELSE [exc |-> "None", stdout |-> "open"]

\* __PLANKS_CONSTANT in the units of the model: 6.62607015e-34 J s over
\* the energy unit (0.1 V times the elementary charge) times the frequency
\* unit (that of Frequency), 2.118767208613 cut to seven decimals
PLANKS_CONSTANT == [num |-> 21187672, den |-> 10000000]

\* q with k more decimal digits of r / b appended, the last one rounded
RECURSIVE Decimals(_, _, _, _)
Decimals(q, r, b, k) ==
    IF k = 0 THEN (IF 2 * r >= b THEN q + 1 ELSE q)
    ELSE Decimals(q * 10 + (r * 10) \div b, (r * 10) % b, b, k - 1)

\* Experiment.__get_plank_error for the estimate p, in units of 0.0001 %:
\* the four decimals that __print_report prints
get_plank_error(p) ==
    LET a == Abs(p.num * PLANKS_CONSTANT.den - PLANKS_CONSTANT.num * p.den)
        b == p.den * PLANKS_CONSTANT.num
    IN  Decimals(a \div b, a % b, b, 6)

\* lines 242-249 of __print_report: the estimates as they are when the
\* report is printed
ReportLines(wf, p) ==
    [printed |-> TRUE, work_func |-> wf, plank |-> p, error |-> get_plank_error(p)]

\* steps of the save options the file system can refuse
SaveLogIO == {"ok", "mkdir", "to_csv", "savefig"}
SaveResultsIO == SaveLogIO \cup {"open", "write"}

\* __display_results fitting only when no estimate is stored yet
display_results_cached ==
    /\ pc = "menu"
    /\ option' = 7
    /\ indx' = NoIndex
    /\ raised' = "None"
    /\ IF Len(datalog) > 0
       THEN LET edf == IF energy_df = <<>> THEN create_energy_df(datalog) ELSE energy_df
                est == plot_energy_data(edf)
            IN  /\ energy_df' = edf
                /\ plank' = est.plank
                /\ work_func' = est.work_func
                /\ report' = ReportLines(est.work_func, est.plank)
                /\ out' = "-------------------- Report --------------------"
       ELSE /\ out' = "[+]The datalog is currently empty"
            /\ UNCHANGED <<energy_df, plank, work_func, report>>
    /\ UNCHANGED <<datalog, pc, csv, stdout, files>>
    /\ end_exp' = IF pc' = "crashed" THEN end_exp ELSE "None"
    /\ answered' = ""
    /\ figures' = IF Len(datalog) > 0 THEN show(backend) ELSE figures
    /\ UNCHANGED backend

\* __display_results sorting the datalog itself by wavelength
display_results_sorts_datalog ==
    /\ pc = "menu"
    /\ option' = 7
    /\ indx' = NoIndex
    /\ raised' = "None"
    /\ IF Len(datalog) > 0
       THEN LET edf == create_energy_df(datalog)
                est == plot_energy_data(edf)
                key == [k \in DOMAIN datalog |->
                          [lam |-> datalog[k].wavelength, e |-> datalog[k]]]
                sorted == SortByLam(key)
            IN  /\ energy_df' = edf
                /\ plank' = est.plank
                /\ work_func' = est.work_func
                /\ report' = ReportLines(est.work_func, est.plank)
                /\ datalog' = [k \in DOMAIN sorted |-> sorted[k].e]
                /\ out' = "-------------------- Report --------------------"
       ELSE /\ out' = "[+]The datalog is currently empty"
            /\ UNCHANGED <<datalog, energy_df, plank, work_func, report>>
    /\ UNCHANGED <<pc, csv, stdout, files>>
    /\ end_exp' = IF pc' = "crashed" THEN end_exp ELSE "None"
    /\ answered' = ""
    /\ figures' = IF Len(datalog) > 0 THEN show(backend) ELSE figures
    /\ UNCHANGED backend

\* Experiment.__display_results, option 7
display_results ==
    /\ pc = "menu"
    /\ option' = 7
    /\ indx' = NoIndex
    /\ raised' = "None"
    /\ IF Len(datalog) > 0
       THEN LET edf == create_energy_df(datalog)
                est == plot_energy_data(edf)
            IN  /\ energy_df' = edf
                /\ plank' = est.plank
                /\ work_func' = est.work_func
                /\ report' = ReportLines(est.work_func, est.plank)
                /\ out' = "-------------------- Report --------------------"
       ELSE /\ out' = "[+]The datalog is currently empty"
            /\ UNCHANGED <<energy_df, plank, work_func, report>>
    /\ UNCHANGED <<datalog, pc, csv, stdout, files>>
    /\ end_exp' = IF pc' = "crashed" THEN end_exp ELSE "None"
    /\ answered' = ""
    /\ figures' = IF Len(datalog) > 0 THEN show(backend) ELSE figures
    /\ UNCHANGED backend

\* Experiment.__save_results, option 8.  Each step runs only if the steps
\* before it did not raise; the except of line 544 prints with cprint,
\* which itself raises once the output stream is closed.
save_results(confirmation, io) ==
    /\ pc = "menu"
    /\ option' = 8
    /\ indx' = NoIndex
    /\ IF Len(datalog) > 0 /\ confirmation = "y"
       THEN LET edf == create_energy_df(datalog)
                est == plot_energy_data(edf)
                rep == print_report(TRUE, io)
                made == io # "mkdir"
                plotted == made /\ io # "to_csv"
                reported == plotted /\ io # "savefig"
            IN  /\ energy_df' = IF made THEN edf ELSE energy_df
                /\ plank' = IF plotted THEN est.plank ELSE plank
                /\ work_func' = IF plotted THEN est.work_func ELSE work_func
                /\ figures' = IF io = "savefig" THEN TRUE
                              ELSE IF reported THEN FALSE ELSE figures
                /\ stdout' = IF reported THEN rep.stdout ELSE stdout
                /\ report' = IF io = "ok" THEN ReportLines(est.work_func, est.plank)
                              ELSE report
                /\ raised' = IF io \in {"mkdir", "to_csv", "savefig"} THEN "OSError"
                             ELSE IF rep.stdout = "closed" THEN "ValueError"
                             ELSE rep.exc
                /\ IF reported /\ rep.stdout = "closed"
                   THEN /\ out' = "Traceback (most recent call last):"
                        /\ pc' = "crashed"
                   ELSE /\ out' = IF io = "ok"
                                  THEN "[+]The results have been saved"
                                  ELSE "ERROR: save_results: unable to save results to file"
                        /\ UNCHANGED pc
       ELSE /\ out' = IF Len(datalog) > 0 THEN "Would you like to proceed (y/n)?: "
                      ELSE "[+]The datalog is currently empty"
            /\ raised' = "None"
            /\ UNCHANGED <<pc, results, figures>>
    /\ UNCHANGED <<datalog, csv, files>>
    /\ end_exp' = IF pc' = "crashed" THEN end_exp ELSE "None"
    /\ answered' = IF Len(datalog) > 0 THEN confirmation ELSE ""
    /\ UNCHANGED backend

\* str.lower() on the kinds SourceType gives
Lower(s) == IF s = "LED" THEN "led" ELSE IF s = "Laser" THEN "laser" ELSE s

\* line 274 of save_data: the name of the csv file of an entry, without
\* the directory.  The wavelengths of Wavelengths are whole numbers of
\* nanometres, which round() gives back as they are.
CsvName(entry) ==
    [kind |-> Lower(entry.source_type), nm |-> entry.wavelength, ext |-> "nm.csv"]

\* line 275 of save_data: to_csv creates the file or replaces what it held
to_csv(fs, entry) ==
    [name \in DOMAIN fs \cup {CsvName(entry)} |->
        IF name = CsvName(entry) THEN entry.source_df.rows ELSE fs[name]]

\* the loop of lines 490-492 of __save_log over the first n entries
RECURSIVE SaveEntries(_, _, _)
SaveEntries(fs, log, n) ==
    IF n = 0 THEN fs ELSE to_csv(SaveEntries(fs, log, n - 1), log[n])

\* Experiment.__save_log, option 6, with Light_Source.save_data on each
\* entry in turn.  failing is the position of the entry at which the file
\* system refuses: the entries before it were saved and their figures
\* closed; a refused to_csv leaves that entry's file unwritten, a refused
\* savefig comes after its csv file was written and plt.figure() called,
\* and before plt.close('all')
save_log(confirmation, io, failing) ==
    /\ pc = "menu"
    /\ option' = 6
    /\ indx' = NoIndex
    /\ IF Len(datalog) > 0 /\ confirmation = "y" /\ io \in {"to_csv", "savefig"}
       THEN failing \in 0..(Len(datalog) - 1)
       ELSE failing = 0
    /\ IF Len(datalog) > 0 /\ confirmation = "y"
       THEN /\ raised' = IF io = "ok" THEN "None" ELSE "OSError"
            /\ figures' = IF io = "savefig" THEN TRUE
                          ELSE IF io = "ok" \/ (io = "to_csv" /\ failing > 0) THEN FALSE
                          ELSE figures
            /\ files' = IF io = "ok" THEN SaveEntries(files, datalog, Len(datalog))
                        ELSE IF io = "savefig" THEN SaveEntries(files, datalog, failing + 1)
                        ELSE IF io = "to_csv" THEN SaveEntries(files, datalog, failing)
                        ELSE files
            /\ out' = IF io = "ok" THEN "[+]The datalog has been saved"
                      ELSE "ERROR: save_log: unable to save data to files"
       ELSE /\ out' = IF Len(datalog) > 0 THEN "Would you like to proceed (y/n)?: "
                      ELSE "[+]The datalog is currently empty"
            /\ raised' = "None"
            /\ UNCHANGED <<figures, files>>
    /\ UNCHANGED <<datalog, pc, csv, energy_df, plank, work_func, stdout, report>>
    /\ end_exp' = IF pc' = "crashed" THEN end_exp ELSE "None"
    /\ answered' = IF Len(datalog) > 0 THEN confirmation ELSE ""
    /\ UNCHANGED backend

Next ==
    \/ \E a \in TypeInputs, w \in Wavelengths, f \in YesNo, p \in Paths :
          add_log_entry(a, w, f, p)
    \/ \E i \in IndexInputs : remove_log_entry(i)
    \/ \E i \in IndexInputs, f \in YesNo, p \in Paths : update_log_entry(i, f, p)
    \/ display_log
    \/ \E i \in IndexInputs : view_log_entry(i)
    \/ \E c \in YesNo : clear_log(c)
    \/ \E c \in YesNo : quit(c)

Spec == Init /\ [][Next]_vars

(***************************************************************************)
(* The estimate options on a datalog already filled.  Its entries were     *)
(* loaded from csv files of one sample each, a different file for each     *)
(* entry, so that the stopping voltages differ from entry to entry; all    *)
(* are of the kind LED, and the photocurrent of each sample is the sum of  *)
(* its two currents.  The run starts where the add of the last entry left  *)
(* it: that entry's file is the one in the working directory, its plot     *)
(* was shown, and no estimate was asked for and nothing saved yet.  With   *)
(* no entry it starts where __init__ left it.                              *)
(***************************************************************************)
LoadedEntries ==
    { load_data_from_csv(Light_Source(w, SourceType("led")), "data.csv", <<smp>>).entry :
        w \in Wavelengths, smp \in { x \in Samples : x.I_phi = x.I_ub + x.I_b } }

InitResults ==
    /\ datalog \in UNION { SeqsOfLen(LoadedEntries, n) : n \in 0..MaxLog }
    /\ pc = "menu"
    /\ backend \in Backends
    /\ IF datalog = <<>>
       THEN /\ option = -1
            /\ out = "Beginning experiment"
            /\ end_exp = "False"
            /\ figures = FALSE
            /\ csv = <<>>
       ELSE /\ option = 1
            /\ out = "[+]Added entry:"
            /\ end_exp = "None"
            /\ figures = plot_data(backend)
            /\ csv = datalog[Len(datalog)].source_df.rows
    /\ indx = NoIndex
    /\ raised = "None"
    /\ answered = ""
    /\ energy_df = <<>>
    /\ plank = Zero
    /\ work_func = Zero
    /\ stdout = "open"
    /\ files = <<>>
    /\ report = NoReport

NextResults ==
    \/ display_results
    \/ \E c \in YesNo, io \in SaveResultsIO : save_results(c, io)
    \/ display_log
    \/ \E i \in IndexInputs : view_log_entry(i)
    \/ \E i \in IndexInputs : remove_log_entry(i)
    \/ \E c \in YesNo : clear_log(c)

SpecResults == InitResults /\ [][NextResults]_vars

(***************************************************************************)
(* The options that show and save, 4 to 8, on a datalog already filled.    *)
(***************************************************************************)
NextReadOnly ==
    \/ display_log
    \/ \E i \in IndexInputs : view_log_entry(i)
    \/ \E c \in YesNo, io \in SaveLogIO, k \in 0..(MaxLog - 1) : save_log(c, io, k)
    \/ display_results
    \/ \E c \in YesNo, io \in SaveResultsIO : save_results(c, io)

SpecReadOnly == InitResults /\ [][NextReadOnly]_vars

(***************************************************************************)
(* The menu loop of main with all its options, on an experiment that       *)
(* starts empty.                                                           *)
(***************************************************************************)
\* Experiment.__options: the handler and the description of each option
options ==
    [o \in 0..9 |->
        <<"__quit", "__add_log_entry", "__remove_log_entry", "__update_log_entry",
          "__display_log", "__view_log_entry", "__save_log", "__display_results",
          "__save_results", "__clear_log">>[o + 1]]

\* Experiment.get_option_range
get_option_range ==
    LET option_keys == DOMAIN options
    IN  <<CHOOSE lo \in option_keys : \A k \in option_keys : lo <= k,
          CHOOSE hi \in option_keys : \A k \in option_keys : hi >= k>>

\* what can be typed at 'Select an option': text that int() refuses, and
\* integers from one below to one above the options
OptionAnswers ==
    {[isint |-> FALSE, val |-> 0]} \cup {[isint |-> TRUE, val |-> v] : v \in -1..10}

\* the loop of get_option from the i-th answer on, option being the value
\* the variable of that name holds: an answer int() refuses leaves it
RECURSIVE get_option_from(_, _, _, _, _)
get_option_from(answers, i, opt, min, max) ==
    IF ~(opt < min \/ opt > max) \/ i > Len(answers) THEN opt
    ELSE IF answers[i].isint
         THEN get_option_from(answers, i + 1, answers[i].val, min, max)
         ELSE get_option_from(answers, i + 1, opt, min, max)

\* PEF_Lab.get_option on the answers typed until it returns
get_option(answers, min, max) == get_option_from(answers, 1, -1, min, max)

\* the answers one call of get_option reads: at most one that it refuses,
\* then one that it accepts
AnswerRuns ==
    LET min == get_option_range[1]
        max == get_option_range[2]
        accepted == { a \in OptionAnswers : a.isint /\ a.val >= min /\ a.val <= max }
    IN  { <<a>> : a \in accepted }
           \cup { <<r, a>> : r \in OptionAnswers \ accepted, a \in accepted }

\* the wavelength typed at the add prompt in the runs of the menu loop
MenuWavelengths == { w \in Wavelengths : \A v \in Wavelengths : w <= v }

\* Experiment.process_option: the handler the table holds for the option,
\* called with what the user answers to its prompts
process_option(o) ==
    \/ o = 0 /\ options[o] = "__quit" /\ \E c \in YesNo : quit(c)
    \/ o = 1 /\ options[o] = "__add_log_entry"
             /\ \E a \in TypeInputs, w \in MenuWavelengths, f \in YesNo, p \in Paths :
                   add_log_entry(a, w, f, p)
    \/ o = 2 /\ options[o] = "__remove_log_entry"
             /\ \E i \in IndexInputs : remove_log_entry(i)
    \/ o = 3 /\ options[o] = "__update_log_entry"
             /\ \E i \in IndexInputs, f \in YesNo, p \in Paths : update_log_entry(i, f, p)
    \/ o = 4 /\ options[o] = "__display_log" /\ display_log
    \/ o = 5 /\ options[o] = "__view_log_entry"
             /\ \E i \in IndexInputs : view_log_entry(i)
    \/ o = 6 /\ options[o] = "__save_log"
             /\ \E c \in YesNo, io \in SaveLogIO, k \in 0..(MaxLog - 1) : save_log(c, io, k)
    \/ o = 7 /\ options[o] = "__display_results" /\ display_results
    \/ o = 8 /\ options[o] = "__save_results"
             /\ \E c \in YesNo, io \in SaveResultsIO : save_results(c, io)
    \/ o = 9 /\ options[o] = "__clear_log" /\ \E c \in YesNo : clear_log(c)

\* one turn of the loop of main, lines 103-108, for the answers typed at
\* 'Select an option'; the loop test is the pc = "menu" of the handlers
main_loop(answers) ==
    process_option(get_option(answers, get_option_range[1], get_option_range[2]))

\* the experiment as __init__ leaves it, beside a csv file of one sample,
\* on a desktop where pyplot opens windows
InitMenu ==
    /\ Init
    /\ backend = "window"
    /\ csv = <<CHOOSE smp \in Samples : smp.V_r = 3 /\ smp.I_phi = smp.I_ub + smp.I_b>>

NextMenu == \E answers \in AnswerRuns : main_loop(answers)

SpecMenu == InitMenu /\ [][NextMenu]_vars

(***************************************************************************)
(* Vocabulary of the properties                                            *)
(***************************************************************************)
Entries == { datalog[k] : k \in DOMAIN datalog }
RowsOf(e) == e.source_df.rows
\* the sweep has a sample whose photocurrent is >= 0
HasCrossing(rows) == \E k \in DOMAIN rows : rows[k].I_phi >= 0
\* the retarding voltage of the first sample with photocurrent >= 0 when
\* the samples are taken in ascending order of retarding voltage
AscendingCrossingVoltage(rows) ==
    CHOOSE v \in { rows[k].V_r : k \in DOMAIN rows } :
        /\ \E k \in DOMAIN rows : rows[k].V_r = v /\ rows[k].I_phi >= 0
        /\ \A k \in DOMAIN rows : rows[k].I_phi >= 0 => v <= rows[k].V_r
SortedByVoltage(rows) ==
    \A j, k \in DOMAIN rows : j < k => rows[j].V_r <= rows[k].V_r
\* the index typed at the prompt is not a position of a datalog of n entries
InvalidFor(answer, n) == ~answer.isint \/ answer.val < 0 \/ answer.val >= n
IndexErrors ==
    { "ERROR: invalid entry: no entries were removed",
      "ERROR: invalid entry: no entries were updated",
      "ERROR: invalid entry: unable to view entry" }
\* every entry of old is in new at the position it had
KeepsEntries(old, new) ==
    Len(new) >= Len(old) /\ \A k \in DOMAIN old : new[k] = old[k]

(***************************************************************************)
(* C1: for every entry whose sweep has a sample with photocurrent >= 0,    *)
(* the stored stopping voltage is the retarding voltage of the first such  *)
(* sample in ascending order of retarding voltage, whatever order the      *)
(* samples were supplied in.  The code searches in the order of the file.  *)
(***************************************************************************)
C1_StopVoltageIsAscendingCrossing ==
    \A e \in Entries :
        HasCrossing(RowsOf(e)) => e.stop_voltage = AscendingCrossingVoltage(RowsOf(e))

(***************************************************************************)
(* C2: a sweep whose samples all have negative photocurrent makes the      *)
(* computation signal an error, so the add or update that loaded it is     *)
(* abandoned and no entry with such a sweep, carrying some sample's        *)
(* voltage as its stopping voltage, is ever stored.  The code stores the   *)
(* last sample's voltage.                                                  *)
(***************************************************************************)
C2_NoCrossingIsAnError ==
    \A e \in Entries : RowsOf(e) # <<>> => HasCrossing(RowsOf(e))

(***************************************************************************)
(* C3: remove, update and view given an index that is not an integer, is   *)
(* < 0 or is >= the size of the datalog print their error and leave the    *)
(* datalog as it was.                                                      *)
(***************************************************************************)
C3_InvalidIndexLeavesDatalog ==
    [][ (option' \in {2, 3, 5} /\ Len(datalog) > 0 /\ InvalidFor(indx', Len(datalog)))
            => (datalog' = datalog /\ out' \in IndexErrors) ]_vars

\* remove(3) was refused on a datalog of 2 entries
C3_Witness ==
    /\ option = 2 /\ indx.isint /\ indx.val = 3
    /\ out = "ERROR: invalid entry: no entries were removed"
    /\ Len(datalog) = 2

(***************************************************************************)
(* C4: an entry stays in the datalog, at its position, through every menu  *)
(* action other than a remove that removed, an update that completed and   *)
(* a clear that cleared; an update whose load or collection fails leaves   *)
(* the datalog unchanged.  The code pops the entry before it loads.        *)
(***************************************************************************)
C4_EntriesStayUntilRemoved ==
    [][ \/ out' \in { "[+]Removed entry:", "[+]Updated entry:",
                      "[+]The datalog has been cleared" }
        \/ KeepsEntries(datalog, datalog') ]_vars

(***************************************************************************)
(* C5: an update that completes at position i keeps the size, keeps the    *)
(* entries before i, moves the entries after i one position left and puts  *)
(* last a new entry with the wavelength and kind of the entry replaced.    *)
(***************************************************************************)
C5_UpdateRemovesAndAppends ==
    [][ out' = "[+]Updated entry:" =>
            LET i == indx'.val
                n == Len(datalog)
            IN  /\ indx'.isint /\ 0 <= i /\ i < n
                /\ Len(datalog') = n
                /\ \A j \in 1..i : datalog'[j] = datalog[j]
                /\ \A j \in (i + 2)..n : datalog'[j - 1] = datalog[j]
                /\ datalog'[n].wavelength = datalog[i + 1].wavelength
                /\ datalog'[n].source_type = datalog[i + 1].source_type ]_vars

\* position 0 of a datalog of two different entries was updated: the other
\* entry is now first and the new one, of another kind or wavelength, last
C5_Witness ==
    /\ option = 3 /\ out = "[+]Updated entry:" /\ indx.val = 0
    /\ Len(datalog) = 2
    /\ \/ datalog[1].wavelength # datalog[2].wavelength
       \/ datalog[1].source_type # datalog[2].source_type

(***************************************************************************)
(* C6: a remove at position i, 0 <= i < size, makes the datalog one        *)
(* shorter, keeps the entries before i and moves the entries after i one   *)
(* position left.                                                          *)
(***************************************************************************)
C6_RemoveDeletesPosition ==
    [][ out' = "[+]Removed entry:" =>
            LET i == indx'.val
                n == Len(datalog)
            IN  /\ indx'.isint /\ 0 <= i /\ i < n
                /\ Len(datalog') = n - 1
                /\ \A j \in 1..i : datalog'[j] = datalog[j]
                /\ \A j \in (i + 2)..n : datalog'[j - 1] = datalog[j] ]_vars

\* position 0 was removed and an entry that stood after it is left
C6_Witness ==
    /\ option = 2 /\ out = "[+]Removed entry:" /\ indx.val = 0
    /\ Len(datalog) >= 1

(***************************************************************************)
(* C7: the run ends only by a confirmed quit; no failure inside a menu     *)
(* action ends it.  The code lets the NameError of collect_data out of     *)
(* the add action.                                                         *)
(***************************************************************************)
C7_RunEndsOnlyByQuit ==
    pc # "menu" => (pc = "done" /\ option = 0)

(***************************************************************************)
(* C8: every entry in the datalog has a sweep that is present and has its  *)
(* samples, and an add whose load fails appends nothing.                   *)
(***************************************************************************)
C8_EntriesArePopulated ==
    [][ /\ \A k \in DOMAIN datalog' :
              datalog'[k].source_df.present /\ RowsOf(datalog'[k]) # <<>>
        /\ (option' = 1 /\ out' = "ERROR: read_csv: unable to load file")
              => datalog' = datalog ]_vars

\* an add failed to load after an earlier add had completed
C8_Witness ==
    /\ option = 1 /\ out = "ERROR: read_csv: unable to load file"
    /\ Len(datalog) > 0

(***************************************************************************)
(* C9: the sweep of every entry is sorted ascending by retarding voltage.  *)
(* The code stores a csv file's rows in the order of the file.             *)
(***************************************************************************)
C9_SweepsAreSorted ==
    \A e \in Entries : SortedByVoltage(RowsOf(e))

(***************************************************************************)
(* C10: in every sample of every entry's sweep the photocurrent is the     *)
(* unblocked current plus the blocked current.  The code takes the         *)
(* photocurrent column of a csv file as it is.                             *)
(***************************************************************************)
C10_PhotocurrentIsSum ==
    \A e \in Entries : \A k \in DOMAIN RowsOf(e) :
        RowsOf(e)[k].I_phi = RowsOf(e)[k].I_ub + RowsOf(e)[k].I_b

(***************************************************************************)
(* Vocabulary of the properties on estimates                               *)
(***************************************************************************)
\* outcome lines of a results request that ran to its end
ResultsDone ==
    { "-------------------- Report --------------------",
      "[+]The results have been saved" }
Perms(n) ==
    { q \in [1..n -> 1..n] : \A i, j \in 1..n : i # j => q[i] # q[j] }
Permuted(log, q) == [k \in DOMAIN log |-> log[q[k]]]
Sign(f) == IF f.num > 0 THEN 1 ELSE IF f.num < 0 THEN -1 ELSE 0

(***************************************************************************)
(* C11: loading a sweep of zero samples raises an error: the add reports   *)
(* it and appends nothing, so no entry with the default stopping voltage   *)
(* of an empty sweep reaches the datalog.                                  *)
(***************************************************************************)
C11_EmptyRecordIsAnError ==
    [][ /\ (csv = <<>> /\ option' = 1) => (raised' # "None" /\ datalog' = datalog)
        /\ (option' = 1 /\ raised' = "IndexError")
              => out' = "ERROR: read_csv: unable to load file" ]_vars

\* an add loaded the csv file with no rows and was refused
C11_Witness ==
    /\ csv = <<>> /\ option = 1 /\ raised = "IndexError"
    /\ out = "ERROR: read_csv: unable to load file"
    /\ datalog = <<>>

(***************************************************************************)
(* C12: a results request on a datalog with fewer than 2 distinct          *)
(* frequencies signals a degenerate-fit error, so none runs to its end     *)
(* and stores estimates.  The code fits a flat line and reports it.        *)
(***************************************************************************)
C12_DegenerateFitIsAnError ==
    out \in ResultsDone =>
        Cardinality({ EnergyRow(e).nu : e \in Entries }) >= 2

(***************************************************************************)
(* C13: the energy table has one row per entry of the datalog, with that   *)
(* entry's wavelength in metres and its stopping voltage, and its rows     *)
(* are in ascending order of wavelength whatever the order of the entries. *)
(***************************************************************************)
C13_EnergyTableIsSortedJoin ==
    out \in ResultsDone =>
        /\ Len(energy_df) = Len(datalog)
        /\ \A j, k \in DOMAIN energy_df : j < k => energy_df[j].lam <= energy_df[k].lam
        /\ \E q \in Perms(Len(datalog)) : \A k \in DOMAIN energy_df :
              /\ energy_df[k].lam = datalog[q[k]].wavelength * 1000
              /\ energy_df[k].V_s = datalog[q[k]].stop_voltage

\* results were shown for a datalog whose entries stand in descending
\* order of wavelength
C13_Witness ==
    /\ option = 7 /\ out \in ResultsDone
    /\ Len(datalog) = 2 /\ datalog[1].wavelength > datalog[2].wavelength
    /\ datalog[1].stop_voltage # datalog[2].stop_voltage

(***************************************************************************)
(* C14: showing the datalog, viewing an entry, saving the datalog and      *)
(* showing or saving the results leave the datalog as it was.              *)
(***************************************************************************)
C14_ReadOnlyOptionsKeepDatalog ==
    [][ option' \in {4, 5, 6, 7, 8} => datalog' = datalog ]_vars

\* results were saved for a datalog that sorting would have rearranged
C14_Witness ==
    /\ option = 8 /\ out \in ResultsDone
    /\ Len(datalog) = 2 /\ datalog[1].wavelength > datalog[2].wavelength

(***************************************************************************)
(* C15: an add that completes puts the new entry last: the datalog is one  *)
(* longer, every earlier entry keeps its position, and the add does not    *)
(* fail once the entry is loaded.                                          *)
(***************************************************************************)
C15_AddAppends ==
    [][ out' = "[+]Added entry:" =>
            /\ Len(datalog') = Len(datalog) + 1
            /\ \A k \in DOMAIN datalog : datalog'[k] = datalog[k]
            /\ datalog'[Len(datalog')].source_df.present
            /\ raised' = "None" /\ pc' = "menu" ]_vars

\* a second entry, different from the first, was added
C15_Witness ==
    /\ option = 1 /\ out = "[+]Added entry:"
    /\ Len(datalog) = 2 /\ datalog[1] # datalog[2]

(***************************************************************************)
(* C16: a confirmed clear leaves the datalog empty, a clear of an empty    *)
(* datalog leaves it empty without an error, and a declined clear leaves   *)
(* the datalog as it was.                                                  *)
(***************************************************************************)
C16_ClearEmptiesOrKeeps ==
    [][ option' = 9 =>
            /\ raised' = "None" /\ pc' = "menu"
            /\ out' = "[+]The datalog has been cleared" => datalog' = <<>>
            /\ datalog = <<>> => datalog' = <<>>
            /\ out' # "[+]The datalog has been cleared" => datalog' = datalog ]_vars

\* a datalog of two entries was cleared
C16_Witness ==
    /\ option = 9 /\ out = "[+]The datalog has been cleared" /\ datalog = <<>>

(***************************************************************************)
(* C17: the stopping voltage stored on every entry of the datalog is the   *)
(* value the stopping-voltage rule yields on the sweep the entry holds:    *)
(* the sweep has a sample with photocurrent >= 0 and the stored value is   *)
(* the retarding voltage of the first such sample in ascending order of    *)
(* retarding voltage, never a default nor a value the rule does not yield. *)
(* The code recomputes on every assignment, but in the order of the file   *)
(* and with the last sample for a sweep that never crosses (C1, C2).       *)
(***************************************************************************)
C17_StopVoltageIsOfCurrentSweep ==
    \A e \in Entries :
        RowsOf(e) # <<>> =>
            /\ HasCrossing(RowsOf(e))
            /\ e.stop_voltage = AscendingCrossingVoltage(RowsOf(e))

(***************************************************************************)
(* C18: the estimates a results request stores are those of every          *)
(* permutation of the datalog: the fit does not depend on the order in     *)
(* which the entries were added.                                           *)
(***************************************************************************)
C18_FitIgnoresOrder ==
    out \in ResultsDone =>
        \A q \in Perms(Len(datalog)) :
            LET est == plot_energy_data(create_energy_df(Permuted(datalog, q)))
            IN  est.plank = plank /\ est.work_func = work_func

\* a fit of two entries of different wavelength and stopping voltage
C18_Witness ==
    /\ out \in ResultsDone /\ Len(datalog) = 2
    /\ datalog[1].wavelength # datalog[2].wavelength
    /\ plank # Zero /\ work_func # Zero

(***************************************************************************)
(* C19 as stated: after a fit the Planck estimate is the slope, the work   *)
(* function is the intercept divided by the electron charge, which is      *)
(* negative, and the intercept and the work function have the same sign.   *)
(***************************************************************************)
C19_SameSigns ==
    out \in ResultsDone =>
        LET weights == FitOf(energy_df)
        IN  /\ plank = weights.slope
            /\ work_func.num * ELECTRON_CHARGE * weights.intercept.den
                  = weights.intercept.num * work_func.den
            /\ ELECTRON_CHARGE < 0
            /\ Sign(work_func) = Sign(weights.intercept)

(***************************************************************************)
(* C19 amended: after a fit the Planck estimate is the slope, the work     *)
(* function is the intercept divided by the electron charge, which is      *)
(* negative, and so the intercept and the work function have opposite      *)
(* signs or are both zero.                                                 *)
(***************************************************************************)
C19_OppositeSigns ==
    out \in ResultsDone =>
        LET weights == FitOf(energy_df)
        IN  /\ plank = weights.slope
            /\ work_func.num * ELECTRON_CHARGE * weights.intercept.den
                  = weights.intercept.num * work_func.den
            /\ ELECTRON_CHARGE < 0
            /\ Sign(work_func) = -Sign(weights.intercept)

\* a fit with a rising line and a negative intercept: the work function
\* is positive
C19_Witness ==
    /\ out \in ResultsDone
    /\ plank.num > 0 /\ work_func.num > 0
    /\ FitOf(energy_df).intercept.num < 0

(***************************************************************************)
(* C20: whatever a save or report action acquired is released when it      *)
(* ends, also when it fails: the step of a save or report option leaves    *)
(* the original output stream open and leaves no figure open that was not  *)
(* open before.  The code closes the original stream when report.txt       *)
(* cannot be opened, skips plt.close when savefig raises, and never closes *)
(* the figure of a report it shows.                                        *)
(***************************************************************************)
C20_ResourcesReleased ==
    [][ option' \in {6, 7, 8} =>
            /\ stdout' = "open"
            /\ figures' => figures ]_vars

(***************************************************************************)
(* C21: after the datalog was saved there is a data file of its own for    *)
(* every entry: n entries have n different files, each holding the sweep   *)
(* of its entry, also when two entries are of the same kind and of         *)
(* wavelengths that round to the same integer.  The code names the file    *)
(* by kind and rounded wavelength only, so such entries share one file     *)
(* and the later one replaces the earlier.                                 *)
(***************************************************************************)
C21_OneFilePerEntry ==
    out = "[+]The datalog has been saved" =>
        \E f \in [DOMAIN datalog -> DOMAIN files] :
            /\ \A j, k \in DOMAIN datalog : j # k => f[j] # f[k]
            /\ \A k \in DOMAIN datalog : files[f[k]] = RowsOf(datalog[k])

(***************************************************************************)
(* C22: a report that is shown or saved carries the estimates and the      *)
(* percent error fitted in the same step to the energy table of the        *)
(* datalog as it is then, whatever was stored before; a results request    *)
(* on an empty datalog prints no report and leaves the stored estimates.   *)
(***************************************************************************)
C22_ReportIsOfCurrentDatalog ==
    [][ option' \in {7, 8} =>
          /\ out' \in ResultsDone =>
                LET edf == create_energy_df(datalog')
                    est == plot_energy_data(edf)
                IN  /\ datalog' # <<>>
                    /\ energy_df' = edf
                    /\ report' = [printed |-> TRUE, work_func |-> est.work_func,
                                  plank |-> est.plank,
                                  error |-> get_plank_error(est.plank)]
          /\ datalog = <<>> =>
                /\ out' \notin ResultsDone
                /\ UNCHANGED <<energy_df, plank, work_func, report>> ]_vars

\* a report of a rising line was saved: the estimate of h is positive and
\* off the accepted value
C22_Witness ==
    /\ option = 8 /\ out \in ResultsDone
    /\ Len(datalog) = 2 /\ report.printed
    /\ report.plank.num > 0 /\ report.error > 0
    /\ report.plank = plank /\ report.work_func = work_func

(***************************************************************************)
(* C23: the menu loop ends only when option 0 is selected and confirmed    *)
(* with 'y'.  Every option get_option returns is a key of the option table *)
(* and has a handler; a step that leaves the menu is option 0 answered     *)
(* 'y'; every other handler returns a falsy value and the loop goes on; a  *)
(* quit answered 'n' goes back to the menu and leaves the datalog as it    *)
(* was.  The code also leaves the loop when a handler raises (C7, C20).    *)
(***************************************************************************)
C23_LoopEndsOnlyByConfirmedQuit ==
    [][ /\ option' \in DOMAIN options
        /\ pc' # "menu" => (option' = 0 /\ answered' = "y")
        /\ ~(option' = 0 /\ answered' = "y")
              => (end_exp' \in {"None", "False"} /\ pc' = "menu")
        /\ (option' = 0 /\ answered' = "n") => datalog' = datalog ]_vars

====
